---- MODULE Spec2Model ----
(***************************************************************************)
(* PdfDiffGo: the concurrent page-alignment and diff pipeline of           *)
(* cmd/main.go (src/unnamed/part_000).  main validates the configuration,  *)
(* starts W workers, enqueues one job per page index on a buffered jobs    *)
(* channel, closes it, drains one completion signal per job from the       *)
(* unbuffered done channel and then assembles the outputs.  Every worker   *)
(* renders under one shared mutex, diffs, saves and signals.               *)
(*                                                                         *)
(* External collaborators (go-fitz rendering, imaging.Save, gofpdf) are    *)
(* modelled by their outcome: a call succeeds or returns an error, chosen  *)
(* nondeterministically.  An image is represented by the pages it was      *)
(* built from, a file by the image saved in it.                            *)
(*                                                                         *)
(* The Diff Engine and the Compositor are pure functions of two page       *)
(* images; they are computed pixel by pixel on small pictures in a second  *)
(* specification, PictureSpec, in which the pipeline does not run.         *)
(***************************************************************************)
EXTENDS Integers, Sequences, FiniteSets, TLC

\* ------------------------------------------------------------------ bounds
MaxPages == 3
MaxWorkers == 2
\* the one long document pair of the model: long enough for the merge loop's
\* progress step (maxPages/10) to have a non-zero divisor
LongPages == 10
\* at most this many calls return an error in one run
MaxFaults == 1
\* the largest page image of the picture runs, in pixels (width * height)
MaxArea == 2
\* the divisor of the merge loop's progress report, i%(maxPages/10)
ProgressParts == 10

VARIABLES
    pagesA,        \* doc1.NumPage()
    pagesB,        \* doc2.NumPage()
    offset,        \* *offsetFlag
    startOffset,   \* *startOffsetFlag
    workers,       \* *workersFlag
    mergeFlag, cleanFlag, sideBySideFlag,
    mpc,           \* main's position
    mi,            \* main's loop variable i
    totalOps, completedOps,
    jobs,          \* the buffered jobs channel
    jobsClosed,    \* close(jobs) has happened
    mutex,         \* 0 when free, else the worker holding it
    wpc,           \* each worker's position
    wj,            \* each worker's job j
    wi,            \* each worker's window loop variable i
    img1, img2,    \* each worker's img1, img2
    files,         \* the file system: path -> saved image
    writes,        \* path -> number of imaging.Save calls that wrote it
    pdfPages,      \* pages of the merged document, in order
    pdfErr,        \* the merged document's sticky error state
    enq,           \* job index -> times main enqueued it
    taken,         \* job index -> times a worker received it
    signals,       \* job index -> completion signals emitted for it
    abandoned,     \* job indices given up after an error
    winErr,        \* job indices with an error in the window copy
    faults,        \* rendering or I/O calls that have returned an error
    combinedPages, \* pages of the side-by-side document, in order
    pic1, pic2,    \* the Diff Engine's and the Compositor's two page images
    verticalAlignFlag,
    diffImg,       \* the Diff Engine's output image
    combinedImg    \* the Compositor's output image

cfgVars == <<pagesA, pagesB, offset, startOffset, workers,
             mergeFlag, cleanFlag, sideBySideFlag>>
mainVars == <<mpc, mi, totalOps, completedOps, jobs, jobsClosed>>
workerVars == <<wpc, wj, wi, img1, img2, mutex>>
outVars == <<files, writes, pdfPages, pdfErr, combinedPages>>
histVars == <<enq, taken, signals, abandoned, winErr, faults>>
picVars == <<pic1, pic2, verticalAlignFlag, diffImg, combinedImg>>
vars == <<cfgVars, mainVars, workerVars, outVars, histVars, picVars>>

\* ----------------------------------------------------------------- helpers
max(a, b) == IF a > b THEN a ELSE b

Workers == 1..workers
NumJobs == max(pagesA, pagesB)
JobIds == 0..(NumJobs - 1)
\* maxPages of the merge loop, numCombinedImages, and the clean loop's range
AlignedPages == max(pagesA + offset, pagesB + offset)

\* an image, by the page it was rendered from
Page(d, p) == [doc |-> d, page |-> p]
\* image.NewRGBA(image.Rect(0, 0, 595, 842))
Blank == [doc |-> "blank", page |-> 0]
NoImage == [doc |-> "none", page |-> 0]
\* what a saved file holds: the diff of two images, the side-by-side
\* composite of two images, or one rendered page as it is
DiffOf(p1, p2) == [kind |-> "diff", a |-> p1, b |-> p2]
CombinedOf(p1, p2) == [kind |-> "combined", a |-> p1, b |-> p2]
CopyOf(p) == [kind |-> "copy", a |-> p, b |-> NoImage]
\* a page of an output document with no image placed on it
NoContent == [kind |-> "none", a |-> NoImage, b |-> NoImage]

\* %d of fmt.Sprintf: a sign for n < 0, then the decimal digits, most
\* significant first
Digit(d) == <<"0", "1", "2", "3", "4", "5", "6", "7", "8", "9">>[d + 1]
RECURSIVE Decimal(_)
Decimal(n) ==
    IF n < 0 THEN <<"-">> \o Decimal(-n)
    ELSE IF n < 10 THEN <<Digit(n)>>
    ELSE Append(Decimal(n \div 10), Digit(n % 10))

\* a diff path that leaves the index out
DiffPathFixed(k) == <<"differences_", ".png">>
\* fmt.Sprintf("differences_%d.png", k)
DiffPath(k) == <<"differences_">> \o Decimal(k) \o <<".png">>
\* fmt.Sprintf("combined_%d.png", k)
CombinedPath(k) == <<"combined_">> \o Decimal(k) \o <<".png">>

\* a jobs channel with room for one job fewer
JobsCapShort == NumJobs - 1
\* make(chan int, max(doc1.NumPage(), doc2.NumPage())): the jobs channel's
\* capacity
JobsCap == NumJobs
\* a drain loop that waits for one signal too few
DrainCountShort == NumJobs - 1
\* the number of completion signals the drain loop waits for
DrainCount == NumJobs
\* a receive that leaves the received value in the buffer
ChanRestKept(q) == q
\* a send that puts the value in the buffer twice
ChanSendTwice(q, v) == q \o <<v, v>>
\* a channel's buffer after a send of v, and after a receive
ChanSend(q, v) == Append(q, v)
ChanRest(q) == Tail(q)

\* the resolver of the earlier PdfDiff.go, whose threshold is startOffset-1
pagToCompareEarly(j) == IF j >= startOffset - 1 THEN j + offset ELSE j
\* the Alignment Resolver
pagToCompare(j) == IF j >= startOffset THEN j + offset ELSE j

\* the diff path of the earlier PdfDiff.go, keyed by the job index alone
diffImgPathRaw(j) == DiffPath(j)
\* the path of job j's diff image
diffImgPath(j) ==
    IF j >= startOffset THEN DiffPath(j + offset) ELSE DiffPath(j)

\* --------------------------------------------------------------- pictures
\* A picture is a page image by its pixels: w columns, h rows, and the colour
\* of every point (x, y) with 0 <= x < w and 0 <= y < h.  A colour is a
\* color.RGBA: four 8-bit channels.
Points(w, h) == (0..(w - 1)) \X (0..(h - 1))
Colour(r, g, b, a) == [r |-> r, g |-> g, b |-> b, a |-> a]
\* color.RGBA{}: what At returns outside the bounds, and what NewRGBA holds
Zero == Colour(0, 0, 0, 0)
\* color.RGBA{255, 0, 0, 255} and color.RGBA{0, 0, 255, 255}
Red == Colour(255, 0, 0, 255)
Blue == Colour(0, 0, 255, 255)
NoPicture == [w |-> 0, h |-> 0, pix |-> <<>>]
\* image.NewRGBA(image.Rect(0, 0, w, h))
NewRGBA(w, h) == [w |-> w, h |-> h, pix |-> [pt \in Points(w, h) |-> Zero]]
\* img.Bounds().Dx(), img.Bounds().Dy()
Dx(img) == img.w
Dy(img) == img.h
InBounds(img, x, y) == 0 <= x /\ x < img.w /\ 0 <= y /\ y < img.h
\* img.At(x, y)
At(img, x, y) == IF InBounds(img, x, y) THEN img.pix[<<x, y>>] ELSE Zero
\* img.Set(x, y, c): nothing happens outside the bounds
Set(img, x, y, c) ==
    IF InBounds(img, x, y) THEN [img EXCEPT !.pix[<<x, y>>] = c] ELSE img

\* the luma coefficients and their scale
rCoeff == 299
gCoeff == 587
bCoeff == 114
scale == 1000
\* one channel of c.RGBA(), the 8-bit value spread over 16 bits, then >> 8
Channel8(v) == (v * 256 + v) \div 256
\* a brightness that is the red channel alone
brightnessRedOnly(c) == Channel8(c.r)
\* brightness(c)
brightness(c) ==
    (rCoeff * Channel8(c.r) + gCoeff * Channel8(c.g) + bCoeff * Channel8(c.b))
        \div scale

\* the colour the diff loop sets at a point where img1 has c1 and img2 has c2
DiffColour(c1, c2) ==
    IF c1 # c2
    THEN (IF brightness(c1) > brightness(c2) THEN Red ELSE Blue)
    ELSE c1
\* the diff image of img1 and img2: the loop over img1's bounds
DiffImage(i1, i2) ==
    [w |-> Dx(i1), h |-> Dy(i1),
     pix |-> [pt \in Points(Dx(i1), Dy(i1)) |->
                DiffColour(At(i1, pt[1], pt[2]), At(i2, pt[1], pt[2]))]]

\* a canvas as wide and as high as the larger input
CanvasOverlaid(i1, i2, vertical) ==
    NewRGBA(max(Dx(i1), Dx(i2)), max(Dy(i1), Dy(i2)))
\* combinedImg as allocated: its width and height for the alignment
Canvas(i1, i2, vertical) ==
    IF vertical
    THEN NewRGBA(max(Dx(i1), Dx(i2)), Dy(i1) + Dy(i2))
    ELSE NewRGBA(Dx(i1) + Dx(i2), max(Dy(i1), Dy(i2)))
\* the copy loops: the first n points of src, row by row, set in dst at
\* (x + dx, y + dy)
RECURSIVE CopyInto(_, _, _, _, _)
CopyInto(dst, src, dx, dy, n) ==
    IF n = 0 THEN dst
    ELSE LET x == (n - 1) % Dx(src)
             y == (n - 1) \div Dx(src)
         IN  Set(CopyInto(dst, src, dx, dy, n - 1), x + dx, y + dy, At(src, x, y))
\* the side-by-side image of img1 and img2
CombinedImage(i1, i2, vertical) ==
    LET first == CopyInto(Canvas(i1, i2, vertical), i1, 0, 0, Dx(i1) * Dy(i1))
    IN  IF vertical
        THEN CopyInto(first, i2, 0, Dy(i1), Dx(i2) * Dy(i2))
        ELSE CopyInto(first, i2, Dx(i1), 0, Dx(i2) * Dy(i2))

\* a total that leaves out the merge and the clean units
TotalOpsJobsOnly == NumJobs
\* totalOps: one unit per job, one for the merge, one for the cleanup
TotalOps ==
    NumJobs + (IF mergeFlag THEN 1 ELSE 0) + (IF cleanFlag THEN 1 ELSE 0)

\* a counter that goes up by two
IncrTwice(n) == n + 2
\* completedOps++
Incr(n) == n + 1

\* a check of the lower limits only
InvalidConfigBelow == offset < 0 \/ startOffset < 0
\* the offset and startoffset checks: either value is out of its range
InvalidConfig ==
    \/ offset < 0 \/ offset >= pagesB
    \/ startOffset < 0 \/ startOffset >= pagesA

\* the outcomes of a call that may return an error: TRUE is success; the long
\* documents render and save without error
Outcomes ==
    IF faults < MaxFaults /\ NumJobs <= MaxPages THEN BOOLEAN ELSE {TRUE}

\* imaging.Save(img, path) succeeding
Saved(path, img) ==
    /\ files' = [q \in DOMAIN files \cup {path} |->
                    IF q = path THEN img ELSE files[q]]
    /\ writes' = [q \in DOMAIN writes \cup {path} |->
                    IF q = path
                    THEN (IF q \in DOMAIN writes THEN writes[q] ELSE 0) + 1
                    ELSE writes[q]]

\* ---------------------------------------------------------------- initial
\* The runs of the model: every pair of short documents with every offset
\* and start offset around the valid range, and one pair of long documents
\* that is merged.
ShortRuns ==
    [a : 1..MaxPages, b : 1..MaxPages,
     off : -1..MaxPages, start : -1..MaxPages, merge : BOOLEAN]
LongRuns ==
    [a : {LongPages}, b : {LongPages},
     off : 0..1, start : 0..1, merge : {TRUE}]

Init ==
    /\ \E c \in ShortRuns \cup LongRuns :
         /\ pagesA = c.a
         /\ pagesB = c.b
         /\ offset = c.off
         /\ startOffset = c.start
         /\ mergeFlag = c.merge
    /\ workers \in 1..MaxWorkers
    /\ cleanFlag \in BOOLEAN
    /\ sideBySideFlag \in BOOLEAN
    /\ mpc = "validate"
    /\ mi = 0
    /\ totalOps = 0
    /\ completedOps = 0
    /\ jobs = <<>>
    /\ jobsClosed = FALSE
    /\ mutex = 0
    /\ wpc = [w \in Workers |-> "unborn"]
    /\ wj = [w \in Workers |-> 0]
    /\ wi = [w \in Workers |-> 0]
    /\ img1 = [w \in Workers |-> NoImage]
    /\ img2 = [w \in Workers |-> NoImage]
    /\ files = <<>>
    /\ writes = <<>>
    /\ pdfPages = <<>>
    /\ pdfErr = FALSE
    /\ combinedPages = <<>>
    /\ enq = [i \in JobIds |-> 0]
    /\ taken = [i \in JobIds |-> 0]
    /\ signals = [i \in JobIds |-> 0]
    /\ abandoned = {}
    /\ winErr = {}
    /\ faults = 0
    /\ pic1 = NoPicture
    /\ pic2 = NoPicture
    /\ verticalAlignFlag = FALSE
    /\ diffImg = NoPicture
    /\ combinedImg = NoPicture

\* worker w's position and the variables of its loop iteration
Local(w, pc, j, i, p1, p2) ==
    /\ wpc' = [wpc EXCEPT ![w] = pc]
    /\ wj' = [wj EXCEPT ![w] = j]
    /\ wi' = [wi EXCEPT ![w] = i]
    /\ img1' = [img1 EXCEPT ![w] = p1]
    /\ img2' = [img2 EXCEPT ![w] = p2]

\* worker w is back at the head of `for j := range jobs`: the iteration's
\* variables are gone
NextJob(w) == Local(w, "recv", 0, 0, NoImage, NoImage)

\* -------------------------------------------------------------------- main
\* the offset and startoffset checks, then totalOps
Validate ==
    /\ mpc = "validate"
    /\ IF InvalidConfig
       THEN /\ mpc' = "fatal"
            /\ UNCHANGED totalOps
       ELSE /\ mpc' = "orient"
            /\ totalOps' = TotalOps
    /\ UNCHANGED <<picVars, cfgVars, mi, completedOps, jobs, jobsClosed,
                   workerVars, outVars, histVars>>

\* orientation: given by the flag, or detected from doc1.Image(0), whose
\* error makes main return
Orient ==
    /\ mpc = "orient"
    /\ \E orientationFlag \in {"", "P", "L"} : \E ok \in Outcomes :
         IF orientationFlag = "" /\ ~ok
         THEN mpc' = "exit" /\ faults' = faults + 1
         ELSE mpc' = "spawn" /\ UNCHANGED faults
    /\ UNCHANGED <<picVars, cfgVars, mi, totalOps, completedOps, jobs, jobsClosed,
                   workerVars, outVars, enq, taken, signals, abandoned, winErr>>

\* the channels are made and the W worker goroutines started
Spawn ==
    /\ mpc = "spawn"
    /\ wpc' = [w \in Workers |-> "recv"]
    /\ jobs' = <<>>
    /\ completedOps' = 0
    /\ mi' = 0
    /\ mpc' = "submit"
    /\ UNCHANGED <<picVars, cfgVars, totalOps, jobsClosed, wj, wi, img1, img2, mutex,
                   outVars, histVars>>

\* jobs <- i on a channel of capacity max(pagesA, pagesB)
Submit ==
    /\ mpc = "submit"
    /\ mi < NumJobs
    /\ Len(jobs) < JobsCap
    /\ jobs' = ChanSend(jobs, mi)
    /\ enq' = [enq EXCEPT ![mi] = @ + 1]
    /\ mi' = mi + 1
    /\ UNCHANGED <<picVars, cfgVars, mpc, totalOps, completedOps, jobsClosed,
                   workerVars, outVars, taken, signals, abandoned, winErr, faults>>

\* close(jobs)
Close ==
    /\ mpc = "submit"
    /\ mi >= NumJobs
    /\ jobsClosed' = TRUE
    /\ mpc' = "drain"
    /\ mi' = 0
    /\ UNCHANGED <<picVars, cfgVars, totalOps, completedOps, jobs,
                   workerVars, outVars, histVars>>

\* where main goes after the drain loop, the merge block, the side-by-side
\* block
AfterDrain ==
    IF mergeFlag THEN "merge"
    ELSE IF sideBySideFlag THEN "sideBySide"
    ELSE IF cleanFlag THEN "clean" ELSE "exit"
AfterMerge ==
    IF sideBySideFlag THEN "sideBySide"
    ELSE IF cleanFlag THEN "clean" ELSE "exit"
AfterSideBySide == IF cleanFlag THEN "clean" ELSE "exit"

\* a drain loop that runs while jobs are still submitted
DrainPhaseEarly == mpc \in {"submit", "drain"}
\* main is in the loop that waits for the jobs, after close(jobs)
DrainPhase == mpc = "drain"

\* <-done meets worker w's done <- true: the channel is unbuffered
Drain(w) ==
    /\ DrainPhase
    /\ mi < DrainCount
    /\ wpc[w] = "send"
    /\ NextJob(w)
    /\ signals' = [signals EXCEPT ![wj[w]] = @ + 1]
    /\ completedOps' = Incr(completedOps)
    /\ mi' = IF mi + 1 < DrainCount THEN mi + 1 ELSE 0
    /\ mpc' = IF mi + 1 < DrainCount THEN "drain" ELSE AfterDrain
    /\ UNCHANGED <<picVars, cfgVars, totalOps, jobs, jobsClosed, mutex, outVars,
                   enq, taken, abandoned, winErr, faults>>

\* one iteration of the merge loop: AddPage, register and place
\* differences_i.png, report progress.  A sticky document error makes AddPage
\* and the placing no-ops.  Registering a file that does not exist fails:
\* gofpdf records the error and returns no image information, whose use is
\* either ignored (the error stays in the document) or a nil dereference.
\* The progress step divides by maxPages/10.
MergeStep ==
    /\ mpc = "merge"
    /\ mi < AlignedPages
    /\ LET path == DiffPath(mi)
           there == path \in DOMAIN files
           page == [index |-> mi,
                    image |-> IF there THEN files[path] ELSE NoContent]
       IN  /\ pdfPages' = IF pdfErr THEN pdfPages ELSE Append(pdfPages, page)
           /\ \E nilPanics \in BOOLEAN :
                IF ~there /\ nilPanics
                THEN mpc' = "panic" /\ UNCHANGED <<mi, pdfErr>>
                ELSE /\ pdfErr' = (pdfErr \/ ~there)
                     /\ IF AlignedPages \div ProgressParts = 0
                        THEN mpc' = "panic" /\ UNCHANGED mi
                        ELSE mpc' = "merge" /\ mi' = mi + 1
    /\ UNCHANGED <<picVars, cfgVars, totalOps, completedOps, jobs, jobsClosed,
                   workerVars, files, writes, combinedPages, histVars>>

\* pdf.OutputFileAndClose(*outputFlag) of the merged document
MergeOutput ==
    /\ mpc = "merge"
    /\ mi >= AlignedPages
    /\ \E ok \in Outcomes :
         IF pdfErr \/ ~ok
         THEN /\ mpc' = "exit"
              /\ faults' = faults + 1
              /\ UNCHANGED completedOps
         ELSE /\ mpc' = AfterMerge
              /\ completedOps' = Incr(completedOps)
              /\ UNCHANGED faults
    /\ mi' = 0
    /\ UNCHANGED <<picVars, cfgVars, totalOps, jobs, jobsClosed, workerVars, outVars,
                   enq, taken, signals, abandoned, winErr>>

\* the side-by-side document: one page per combined_i.png that exists, in
\* increasing i, then its output
SideBySide ==
    /\ mpc = "sideBySide"
    /\ LET all == [n \in 1..AlignedPages |-> n - 1]
           have == SelectSeq(all, LAMBDA i : CombinedPath(i) \in DOMAIN files)
       IN  combinedPages' = [n \in 1..Len(have) |->
                               [index |-> have[n],
                                image |-> files[CombinedPath(have[n])]]]
    /\ \E ok \in Outcomes :
         IF ok THEN mpc' = AfterSideBySide /\ UNCHANGED faults
         ELSE mpc' = "exit" /\ faults' = faults + 1
    /\ UNCHANGED <<picVars, cfgVars, mi, totalOps, completedOps, jobs, jobsClosed,
                   workerVars, files, writes, pdfPages, pdfErr,
                   enq, taken, signals, abandoned, winErr>>

\* the clean block: os.Remove of every differences_i.png, and of every
\* combined_i.png when side-by-side is on; a failing Remove is only logged
Clean ==
    /\ mpc = "clean"
    /\ LET gone == {DiffPath(i) : i \in 0..(AlignedPages - 1)}
                     \cup (IF sideBySideFlag
                           THEN {CombinedPath(i) : i \in 0..(AlignedPages - 1)}
                           ELSE {})
       IN  files' = [q \in DOMAIN files \ gone |-> files[q]]
    /\ completedOps' = Incr(completedOps)
    /\ mpc' = "exit"
    /\ UNCHANGED <<picVars, cfgVars, mi, totalOps, jobs, jobsClosed, workerVars,
                   writes, pdfPages, pdfErr, combinedPages, histVars>>

Main ==
    \/ Validate
    \/ Orient
    \/ Spawn
    \/ Submit
    \/ Close
    \/ \E w \in Workers : Drain(w)
    \/ MergeStep
    \/ MergeOutput
    \/ SideBySide
    \/ Clean

\* ----------------------------------------------------------------- worker
\* the process is alive: goroutines end with it
Running == mpc \notin {"fatal", "exit", "panic"}

\* Where job j goes once img1 is known: the document-B branch.
ToB(j, p1) ==
    IF pagToCompare(j) < pagesB
    THEN [pc |-> "lockB", i1 |-> p1, i2 |-> NoImage]
    ELSE [pc |-> "saveDiff", i1 |-> p1, i2 |-> Blank]

\* a document-A branch that renders whatever the index
ToAUnchecked(j) == [pc |-> "lockA", i1 |-> NoImage, i2 |-> NoImage]
\* Where job j goes after the window block: the document-A branch.
ToA(j) ==
    IF j < pagesA
    THEN [pc |-> "lockA", i1 |-> NoImage, i2 |-> NoImage]
    ELSE ToB(j, Blank)

\* The window loop's body runs at i: i is below startOffset+offset and is a
\* page of doc2 (the loop passes over i >= doc2.NumPage()).
InWindow(i) == i < startOffset + offset /\ i < pagesB

\* worker w moves on in job j: to the window loop at i, or past the loop
Goto(w, j, i) ==
    IF InWindow(i)
    THEN Local(w, "winLock", j, i, NoImage, NoImage)
    ELSE LET t == ToA(j) IN Local(w, t.pc, j, 0, t.i1, t.i2)

\* an error after which the worker goes on to signal the job as done
AbandonSignalling(w) ==
    /\ wpc' = [wpc EXCEPT ![w] = "send"]
    /\ UNCHANGED <<wj, wi, img1, img2>>
    /\ abandoned' = abandoned \cup {wj[w]}
    /\ faults' = faults + 1
\* `continue` of the job loop after an error: the job is given up
Abandon(w) ==
    /\ NextJob(w)
    /\ abandoned' = abandoned \cup {wj[w]}
    /\ faults' = faults + 1

\* for j := range jobs, a job is there
Recv(w) ==
    /\ Running
    /\ wpc[w] = "recv"
    /\ jobs # <<>>
    /\ LET j == Head(jobs)
       IN  /\ jobs' = ChanRest(jobs)
           /\ taken' = [taken EXCEPT ![j] = @ + 1]
           /\ IF j = startOffset
              THEN Goto(w, j, startOffset)
              ELSE Goto(w, j, startOffset + offset)
    /\ UNCHANGED <<picVars, cfgVars, mpc, mi, totalOps, completedOps, jobsClosed,
                   mutex, outVars, enq, signals, abandoned, winErr, faults>>

\* for j := range jobs, the channel is closed and empty
Return(w) ==
    /\ Running
    /\ wpc[w] = "recv"
    /\ jobs = <<>>
    /\ jobsClosed
    /\ wpc' = [wpc EXCEPT ![w] = "returned"]
    /\ UNCHANGED <<picVars, cfgVars, mainVars, wj, wi, img1, img2, mutex,
                   outVars, histVars>>

\* an Unlock that leaves the mutex held
UnlockKept == UNCHANGED mutex
\* mutex.Unlock()
Unlock == mutex' = 0

\* a Lock that is granted while another worker holds the mutex
AcquireHeld(w) == mutex' = w
\* mutex.Lock() is granted
Acquire(w) == mutex = 0 /\ mutex' = w

\* mutex.Lock() before a render
Lock(w) ==
    /\ Running
    /\ wpc[w] \in {"winLock", "lockA", "lockB"}
    /\ Acquire(w)
    /\ wpc' = [wpc EXCEPT ![w] =
                  CASE wpc[w] = "winLock" -> "winRender"
                    [] wpc[w] = "lockA" -> "renderA"
                    [] wpc[w] = "lockB" -> "renderB"]
    /\ UNCHANGED <<picVars, cfgVars, mainVars, wj, wi, img1, img2, outVars, histVars>>

\* the outcomes of doc.Image(p): a page below 0 cannot be loaded
RenderOutcomes(p) == IF p < 0 THEN {FALSE} ELSE Outcomes

\* the window copy's render, doc2.Image(i - 1), and mutex.Unlock()
WinRender(w) ==
    /\ Running
    /\ wpc[w] = "winRender"
    /\ Unlock
    /\ \E ok \in RenderOutcomes(wi[w] - 1) :
         IF ok
         THEN /\ wpc' = [wpc EXCEPT ![w] = "winSave"]
              /\ UNCHANGED <<wj, wi, img1, img2, faults, winErr>>
         ELSE /\ Goto(w, wj[w], wi[w] + 1)
              /\ faults' = faults + 1
              /\ winErr' = winErr \cup {wj[w]}
    /\ UNCHANGED <<picVars, cfgVars, mainVars, outVars,
                   enq, taken, signals, abandoned>>

\* the window copy's imaging.Save(img, "differences_i.png"); after an error
\* the window loop goes on with the next i
WinSave(w) ==
    /\ Running
    /\ wpc[w] = "winSave"
    /\ \E ok \in Outcomes :
         IF ok
         THEN /\ Saved(DiffPath(wi[w]), CopyOf(Page("B", wi[w] - 1)))
              /\ UNCHANGED <<faults, winErr>>
         ELSE /\ UNCHANGED <<files, writes>>
              /\ faults' = faults + 1
              /\ winErr' = winErr \cup {wj[w]}
    /\ Goto(w, wj[w], wi[w] + 1)
    /\ UNCHANGED <<picVars, cfgVars, mainVars, mutex, pdfPages, pdfErr,
                   combinedPages, enq, taken, signals, abandoned>>

\* img1, err = doc1.Image(j) and mutex.Unlock()
RenderA(w) ==
    /\ Running
    /\ wpc[w] = "renderA"
    /\ Unlock
    /\ \E ok \in RenderOutcomes(wj[w]) :
         IF ok
         THEN LET t == ToB(wj[w], Page("A", wj[w]))
              IN  /\ Local(w, t.pc, wj[w], 0, t.i1, t.i2)
                  /\ UNCHANGED <<abandoned, faults>>
         ELSE Abandon(w)
    /\ UNCHANGED <<picVars, cfgVars, mainVars, outVars, enq, taken, signals, winErr>>

\* img2, err = doc2.Image(pagToCompare) and mutex.Unlock()
RenderB(w) ==
    /\ Running
    /\ wpc[w] = "renderB"
    /\ Unlock
    /\ \E ok \in RenderOutcomes(pagToCompare(wj[w])) :
         IF ok
         THEN /\ Local(w, "saveDiff", wj[w], 0, img1[w],
                       Page("B", pagToCompare(wj[w])))
              /\ UNCHANGED <<abandoned, faults>>
         ELSE Abandon(w)
    /\ UNCHANGED <<picVars, cfgVars, mainVars, outVars, enq, taken, signals, winErr>>

\* the diff image is built and saved at the job's diff path
SaveDiff(w) ==
    /\ Running
    /\ wpc[w] = "saveDiff"
    /\ \E ok \in Outcomes :
         IF ok
         THEN /\ Saved(diffImgPath(wj[w]), DiffOf(img1[w], img2[w]))
              /\ wpc' = [wpc EXCEPT ![w] =
                            IF sideBySideFlag THEN "saveCombined" ELSE "send"]
              /\ UNCHANGED <<wj, wi, img1, img2, abandoned, faults>>
         ELSE /\ Abandon(w)
              /\ UNCHANGED <<files, writes>>
    /\ UNCHANGED <<picVars, cfgVars, mainVars, mutex, pdfPages,
                   pdfErr, combinedPages, enq, taken, signals, winErr>>

\* the side-by-side image is built and saved as combined_j.png
SaveCombined(w) ==
    /\ Running
    /\ wpc[w] = "saveCombined"
    /\ \E ok \in Outcomes :
         IF ok
         THEN /\ Saved(CombinedPath(wj[w]), CombinedOf(img1[w], img2[w]))
              /\ wpc' = [wpc EXCEPT ![w] = "send"]
              /\ UNCHANGED <<wj, wi, img1, img2, abandoned, faults>>
         ELSE /\ Abandon(w)
              /\ UNCHANGED <<files, writes>>
    /\ UNCHANGED <<picVars, cfgVars, mainVars, mutex, pdfPages,
                   pdfErr, combinedPages, enq, taken, signals, winErr>>

Worker(w) ==
    \/ Recv(w)
    \/ Return(w)
    \/ Lock(w)
    \/ WinRender(w)
    \/ WinSave(w)
    \/ RenderA(w)
    \/ RenderB(w)
    \/ SaveDiff(w)
    \/ SaveCombined(w)

Next ==
    \/ Validate
    \/ Orient
    \/ Spawn
    \/ Submit
    \/ Close
    \/ \E w \in Workers : Drain(w)
    \/ MergeStep
    \/ MergeOutput
    \/ SideBySide
    \/ Clean
    \/ \E w \in Workers : Recv(w)
    \/ \E w \in Workers : Return(w)
    \/ \E w \in Workers : Lock(w)
    \/ \E w \in Workers : WinRender(w)
    \/ \E w \in Workers : WinSave(w)
    \/ \E w \in Workers : RenderA(w)
    \/ \E w \in Workers : RenderB(w)
    \/ \E w \in Workers : SaveDiff(w)
    \/ \E w \in Workers : SaveCombined(w)

Spec == Init /\ [][Next]_vars

\* the Go scheduler runs every runnable goroutine eventually
FairSpec ==
    Spec /\ WF_vars(Main)
         /\ \A w \in 1..MaxWorkers : WF_vars(w \in Workers /\ Worker(w))

\* ----------------------------------------------------------- picture runs
\* The Diff Engine and the Compositor on their own: the body of one job from
\* `diffImg := image.NewRGBA(img1.Bounds())` on, for every pair of small page
\* images over a palette of colours.
Black == Colour(0, 0, 0, 255)
Palette ==
    {Zero, Black, Red, Blue,
     Colour(200, 200, 200, 255), Colour(50, 50, 50, 255),
     Colour(10, 20, 30, 255)}
Sizes == {sz \in (1..MaxArea) \X (1..MaxArea) : sz[1] * sz[2] <= MaxArea}
Pictures ==
    UNION {[w : {sz[1]}, h : {sz[2]}, pix : [Points(sz[1], sz[2]) -> Palette]] :
             sz \in Sizes}

\* a job that has its two page images; no pipeline around it
PictureInit ==
    /\ pic1 \in Pictures
    /\ pic2 \in Pictures
    /\ verticalAlignFlag \in BOOLEAN
    /\ diffImg = NoPicture
    /\ combinedImg = NoPicture
    /\ pagesA = 1
    /\ pagesB = 1
    /\ offset = 0
    /\ startOffset = 0
    /\ workers = 1
    /\ mergeFlag = FALSE
    /\ cleanFlag = FALSE
    /\ sideBySideFlag = TRUE
    /\ mpc = "validate"
    /\ mi = 0
    /\ totalOps = 0
    /\ completedOps = 0
    /\ jobs = <<>>
    /\ jobsClosed = FALSE
    /\ mutex = 0
    /\ wpc = [w \in Workers |-> "unborn"]
    /\ wj = [w \in Workers |-> 0]
    /\ wi = [w \in Workers |-> 0]
    /\ img1 = [w \in Workers |-> NoImage]
    /\ img2 = [w \in Workers |-> NoImage]
    /\ files = <<>>
    /\ writes = <<>>
    /\ pdfPages = <<>>
    /\ pdfErr = FALSE
    /\ combinedPages = <<>>
    /\ enq = [i \in JobIds |-> 0]
    /\ taken = [i \in JobIds |-> 0]
    /\ signals = [i \in JobIds |-> 0]
    /\ abandoned = {}
    /\ winErr = {}
    /\ faults = 0

\* the diff loop
DiffEngine ==
    /\ pic1 # NoPicture
    /\ diffImg = NoPicture
    /\ diffImg' = DiffImage(pic1, pic2)
    /\ UNCHANGED <<pic1, pic2, verticalAlignFlag, combinedImg,
                   cfgVars, mainVars, workerVars, outVars, histVars>>

\* the side-by-side block, after the diff image
Compositor ==
    /\ diffImg # NoPicture
    /\ combinedImg = NoPicture
    /\ sideBySideFlag
    /\ combinedImg' = CombinedImage(pic1, pic2, verticalAlignFlag)
    /\ UNCHANGED <<pic1, pic2, verticalAlignFlag, diffImg,
                   cfgVars, mainVars, workerVars, outVars, histVars>>

PictureNext ==
    \/ DiffEngine
    \/ Compositor

PictureSpec == PictureInit /\ [][PictureNext]_vars

\* ------------------------------------------------------------------ claims
InJob(w) == wpc[w] \notin {"unborn", "recv", "returned"}
Rendering(w) == wpc[w] \in {"winRender", "renderA", "renderB"}
Count(q, v) == Cardinality({n \in 1..Len(q) : q[n] = v})
AllSignalled == \A i \in JobIds : signals[i] = 1
Assembling == mpc \in {"merge", "sideBySide", "clean"}

\* C1: main enqueues every page index of [0, max(pagesA, pagesB)) exactly
\* once and every enqueued index is received by exactly one worker: an index
\* is enqueued at most once, and once the channel is closed exactly once; an
\* enqueued index is either still in the channel, once, or was received
\* once (none is lost, none is received twice); no two workers are in the
\* same job.
C1_EachIndexOnce ==
    /\ \A i \in JobIds :
         /\ enq[i] <= 1
         /\ jobsClosed => enq[i] = 1
         /\ taken[i] + Count(jobs, i) = enq[i]
    /\ \A n \in 1..Len(jobs) : jobs[n] \in JobIds
    /\ \A v, w \in Workers : InJob(v) /\ InJob(w) /\ v # w => wj[v] # wj[w]
    /\ \A w \in Workers : InJob(w) => taken[wj[w]] = 1

\* C1's case: three jobs, two workers, every job received
C1_Witness ==
    /\ NumJobs = 3
    /\ workers = 2
    /\ jobsClosed
    /\ \A i \in JobIds : enq[i] = 1 /\ taken[i] = 1

\* C2: with no failing call and fair scheduling every job emits exactly one
\* completion signal, main receives max(pagesA, pagesB) signals and reaches
\* the output assembly - whatever the number of workers.  (A run ends before
\* that only by a fatal configuration error.)
C2_AllJobsSignal ==
    /\ [](\A i \in JobIds : signals[i] <= 1)
    /\ <>(\/ faults > 0
          \/ mpc = "fatal"
          \/ /\ AllSignalled
             /\ completedOps >= NumJobs
             /\ mpc \in {"merge", "sideBySide", "clean", "exit", "panic"})

\* C2's case: more workers than jobs, and fewer, have drained every signal
C2_Witness ==
    /\ faults = 0
    /\ AllSignalled
    /\ Assembling
    /\ workers = 2
    /\ NumJobs = 3

\* C3: at most one worker is inside a render call, and a worker inside a
\* render call holds the mutex.
C3_RenderExclusive ==
    /\ Cardinality({w \in Workers : Rendering(w)}) <= 1
    /\ \A w \in Workers : Rendering(w) => mutex = w

\* C3's case: one worker renders while another waits for the mutex
C3_Witness ==
    \E v, w \in Workers :
        /\ wpc[v] = "renderB"
        /\ wpc[w] \in {"winLock", "lockA", "lockB"}

\* C4: the output assembly starts only after one completion signal was
\* received for each of the max(pagesA, pagesB) jobs: while main assembles,
\* or once a page was put in an output document, every job has signalled, no
\* job is left in the channel and no worker is in a job.
C4_AssemblyAfterAllSignals ==
    (Assembling \/ mpc = "panic" \/ pdfPages # <<>> \/ combinedPages # <<>>)
        => /\ AllSignalled
           /\ completedOps >= NumJobs
           /\ jobs = <<>>
           /\ \A w \in Workers : ~InJob(w)

\* C4's case: the merge loop has read an artifact of a run of three jobs
C4_Witness ==
    /\ NumJobs = 3
    /\ workers = 2
    /\ pdfPages # <<>>
    /\ pdfPages[1].image # NoContent

\* C5: the page of document B that job i is diffed against is i when
\* i < startOffset and i + offset when i >= startOffset: so for the page a
\* worker has rendered as img2, and for every saved diff of a page of A and a
\* page of B.
C5_Target(i) == IF i < startOffset THEN i ELSE i + offset
C5_AlignedTarget ==
    /\ \A w \in Workers :
         img2[w].doc = "B" => img2[w].page = C5_Target(wj[w])
    /\ \A p \in DOMAIN files :
         (files[p].kind = "diff" /\ files[p].a.doc = "A" /\ files[p].b.doc = "B")
             => files[p].b.page = C5_Target(files[p].a.page)

\* C5's case: with a start offset above 0, a job below it and a job at or
\* above it have both been diffed against a page of B
C5_Witness ==
    /\ startOffset > 0
    /\ offset > 0
    /\ \E p, q \in DOMAIN files :
         /\ files[p].kind = "diff" /\ files[p].b.doc = "B"
         /\ files[p].a.doc = "A" /\ files[p].a.page < startOffset
         /\ files[q].kind = "diff" /\ files[q].b.doc = "B"
         /\ files[q].a.doc = "A" /\ files[q].a.page >= startOffset

\* C6: once a job was abandoned main never gets out of the drain loop: it
\* receives fewer than max(pagesA, pagesB) signals, completedOps stays below
\* max(pagesA, pagesB), and neither the output assembly nor the cleanup
\* runs.  (Jobs are abandoned only after the workers were started, so main is
\* submitting or draining.)
C6_AbandonedJobBlocksMain ==
    abandoned # {}
        => /\ mpc \in {"submit", "drain"}
           /\ completedOps < NumJobs
           /\ \E i \in JobIds : signals[i] = 0
           /\ pdfPages = <<>>
           /\ combinedPages = <<>>

\* C6's case: a job of three was abandoned, the two others have signalled,
\* every worker has returned and main is still waiting in the drain loop
C6_Witness ==
    /\ NumJobs = 3
    /\ Cardinality(abandoned) = 1
    /\ completedOps = 2
    /\ mpc = "drain"
    /\ \A w \in Workers : wpc[w] = "returned"

\* C7 as stated: after any rendering or I/O failure in job i, those of the
\* window copy included, no completion signal is emitted for job i.
C7_AnyErrorSilencesJob ==
    \A i \in abandoned \cup winErr : signals[i] = 0

\* C7, amended: a failure of the render of page i of A, of the render of the
\* target page of B, of the save of the diff image or of the save of the
\* composite image ends job i with no completion signal, ever, and the worker
\* goes back to receive the next job; a failure of a render or a save of the
\* window copy only passes over that window page and the job goes on.
C7_ErrorStep(w) ==
    (faults' > faults /\ wpc'[w] # wpc[w])
        => IF wpc[w] \in {"winRender", "winSave"}
           THEN /\ wpc'[w] \notin {"recv", "returned"}
                /\ wj'[w] = wj[w]
                /\ wj[w] \in winErr'
                /\ abandoned' = abandoned
           ELSE /\ wpc[w] \in {"renderA", "renderB", "saveDiff", "saveCombined"}
                /\ wpc'[w] = "recv"
                /\ wj[w] \in abandoned'
                /\ signals' = signals
C7_JobErrorAbandonsJob ==
    /\ [](\A i \in abandoned :
            /\ signals[i] = 0
            /\ \A w \in Workers : InJob(w) => wj[w] # i)
    /\ [][\A w \in Workers : C7_ErrorStep(w)]_vars

\* C7's case: one job was abandoned and the worker is receiving again, and
\* another job with a failed window copy has signalled
C7_Witness ==
    /\ abandoned # {}
    /\ \E i \in winErr : signals[i] = 1
    /\ \E w \in Workers : wpc[w] = "recv"

\* C8: once all jobs have completed without failure, differences_k.png
\* exists for every aligned index k in [0, max(pagesA+offset, pagesB+offset)).
C8_ArtifactsGapFree ==
    (faults = 0 /\ AllSignalled /\ (Assembling \/ mpc = "panic"))
        => \A k \in 0..(AlignedPages - 1) : DiffPath(k) \in DOMAIN files

\* C9: every artifact path is written at most once in a run, no two workers
\* are about to save to the same path, and no diff path is a composite path.
C9_Indices == 0..AlignedPages
C9_Target(w) ==
    CASE wpc[w] = "winSave" -> DiffPath(wi[w])
      [] wpc[w] = "saveDiff" -> diffImgPath(wj[w])
      [] wpc[w] = "saveCombined" -> CombinedPath(wj[w])
C9_Saving(w) == wpc[w] \in {"winSave", "saveDiff", "saveCombined"}
C9_PathsWrittenOnce ==
    /\ \A p \in DOMAIN writes : writes[p] <= 1
    /\ \A v, w \in Workers :
         (v # w /\ C9_Saving(v) /\ C9_Saving(w)) => C9_Target(v) # C9_Target(w)
    /\ \A w \in Workers :
         C9_Saving(w) => C9_Target(w) \notin DOMAIN writes
    /\ LET diffs == {DiffPath(k) : k \in C9_Indices}
           combs == {CombinedPath(k) : k \in C9_Indices}
       IN  /\ diffs \cap combs = {}
           /\ Cardinality(diffs) = Cardinality(C9_Indices)
           /\ Cardinality(combs) = Cardinality(C9_Indices)

\* C9's case: three jobs with a window copy and side-by-side images have all
\* been saved: seven files
C9_Witness ==
    /\ NumJobs = 3
    /\ faults = 0
    /\ AllSignalled
    /\ \E p \in DOMAIN files : files[p].kind = "copy"
    /\ Cardinality(DOMAIN writes) = 7

\* C10: with no failure, the persisted artifacts and the page order of the
\* assembled documents are a function of the inputs and the configuration
\* alone: the same for every interleaving and every number of workers.
C10_A(j) == IF j < pagesA THEN Page("A", j) ELSE Blank
C10_B(j) ==
    LET t == IF j < startOffset THEN j ELSE j + offset
    IN  IF t < pagesB THEN Page("B", t) ELSE Blank
C10_Artifacts ==
    {<<DiffPath(IF j < startOffset THEN j ELSE j + offset),
       DiffOf(C10_A(j), C10_B(j))>> : j \in JobIds}
    \cup {<<DiffPath(i), CopyOf(Page("B", i - 1))>> :
            i \in {n \in startOffset..(startOffset + offset - 1) : n < pagesB}}
    \cup (IF sideBySideFlag
          THEN {<<CombinedPath(j), CombinedOf(C10_A(j), C10_B(j))>> : j \in JobIds}
          ELSE {})
C10_Content(arts, path) ==
    IF \E a \in arts : a[1] = path
    THEN (CHOOSE a \in arts : a[1] = path)[2]
    ELSE NoContent
C10_Merged(arts) ==
    [n \in 1..AlignedPages |->
        [index |-> n - 1, image |-> C10_Content(arts, DiffPath(n - 1))]]
C10_Combined(arts) ==
    LET have == SelectSeq([n \in 1..AlignedPages |-> n - 1],
                          LAMBDA i : i \in JobIds)
    IN  [n \in 1..Len(have) |->
            [index |-> have[n],
             image |-> C10_Content(arts, CombinedPath(have[n]))]]
C10_Stored == {<<p, files[p]>> : p \in DOMAIN files}
C10_Deterministic ==
    (faults = 0 /\ mpc \notin {"validate", "fatal", "orient", "spawn"})
        => LET arts == C10_Artifacts
           IN  /\ (AllSignalled /\ (Assembling \/ mpc = "panic"))
                    => C10_Stored = arts
               /\ pdfPages # <<>> =>
                    /\ Len(pdfPages) <= AlignedPages
                    /\ pdfPages = SubSeq(C10_Merged(arts), 1, Len(pdfPages))
               /\ (mergeFlag /\ mpc \in {"sideBySide", "clean"})
                    => Len(pdfPages) = AlignedPages
               /\ combinedPages # <<>> => combinedPages = C10_Combined(arts)
               /\ (sideBySideFlag /\ mpc = "clean")
                    => Len(combinedPages) = NumJobs

\* C10's case: two workers have processed the long documents with an offset
\* and a window copy, and both output documents are assembled
C10_Witness ==
    /\ faults = 0
    /\ workers = 2
    /\ offset = 1
    /\ mpc = "clean"
    /\ Len(pdfPages) = AlignedPages
    /\ Len(combinedPages) = NumJobs

\* C11: completedOps <= totalOps in every reachable state; totalOps is
\* max(pagesA, pagesB), plus one when merge is requested, plus one when clean
\* is requested; it has that value before the workers are started and before
\* any job is enqueued, and no later step changes it.
C11_Total ==
    max(pagesA, pagesB) + (IF mergeFlag THEN 1 ELSE 0)
                        + (IF cleanFlag THEN 1 ELSE 0)
C11_CompletedWithinTotal ==
    /\ [](/\ completedOps <= totalOps
          /\ mpc \notin {"validate", "fatal"} => totalOps = C11_Total
          /\ (\E i \in JobIds : enq[i] > 0) => totalOps = C11_Total
          /\ (\E w \in Workers : wpc[w] # "unborn") => totalOps = C11_Total)
    /\ [][mpc # "validate" => totalOps' = totalOps]_vars

\* C11's case: jobs, merge and clean have all added their units and the
\* counter has reached the total
C11_Witness ==
    /\ mergeFlag
    /\ cleanFlag
    /\ mpc = "exit"
    /\ completedOps = NumJobs + 2
    /\ completedOps = totalOps

\* C12: completedOps goes up by one with every completion signal main
\* receives and by nothing else while jobs are submitted and drained; at the
\* step that ends the drain loop it is max(pagesA, pagesB) exactly, no job
\* having been abandoned, and it keeps that value until the merge or the
\* clean block adds its unit.
RECURSIVE C12_Sum(_, _)
C12_Sum(f, n) == IF n = 0 THEN 0 ELSE f[n - 1] + C12_Sum(f, n - 1)
C12_DrainStep ==
    /\ mpc \in {"submit", "drain"} =>
         /\ completedOps' - completedOps
              = C12_Sum(signals', NumJobs) - C12_Sum(signals, NumJobs)
         /\ completedOps' - completedOps \in {0, 1}
    /\ (mpc = "drain" /\ mpc' # "drain") =>
         /\ completedOps' = max(pagesA, pagesB)
         /\ abandoned = {}
C12_CompletionAccounting ==
    /\ [](/\ mpc \in {"submit", "drain"} =>
               completedOps = C12_Sum(signals, NumJobs)
          /\ mpc = "merge" => completedOps = max(pagesA, pagesB)
          /\ (mpc = "sideBySide" /\ ~mergeFlag) =>
               completedOps = max(pagesA, pagesB)
          /\ (mpc = "clean" /\ ~mergeFlag) =>
               completedOps = max(pagesA, pagesB))
    /\ [][C12_DrainStep]_vars

\* C12's case: the drain loop of a run of three jobs has just ended
C12_Witness ==
    /\ NumJobs = 3
    /\ abandoned = {}
    /\ mpc = "merge"
    /\ mi = 0
    /\ pdfPages = <<>>
    /\ completedOps = 3

\* C13: with offset outside [0, pagesB) or startOffset outside [0, pagesA)
\* the only step main takes is to the fatal configuration error: no worker is
\* ever started, no job enqueued or received, no file written and no page
\* put in an output document.
C13_OutOfRange ==
    \/ ~(0 <= offset /\ offset < pagesB)
    \/ ~(0 <= startOffset /\ startOffset < pagesA)
C13_FatalBeforeWorkers ==
    /\ [](C13_OutOfRange =>
            /\ mpc \in {"validate", "fatal"}
            /\ \A w \in Workers : wpc[w] = "unborn"
            /\ \A i \in JobIds : enq[i] = 0 /\ taken[i] = 0 /\ signals[i] = 0
            /\ jobs = <<>>
            /\ DOMAIN files = {}
            /\ DOMAIN writes = {}
            /\ pdfPages = <<>>
            /\ combinedPages = <<>>
            /\ completedOps = 0)
    /\ [][(C13_OutOfRange /\ mpc = "validate") => mpc' = "fatal"]_vars

\* C13's case: an offset just past the last page of B has ended the run
C13_Witness ==
    /\ offset = pagesB
    /\ startOffset \in 0..(pagesA - 1)
    /\ mpc = "fatal"

\* C14: when merge is requested and no call has failed, the merge block leaves
\* a document of exactly max(pagesA+offset, pagesB+offset) pages, page n
\* being aligned index n-1 and built from differences_(n-1).png.
C14_MergeAppendsAlignedPages ==
    (mergeFlag /\ faults = 0 /\ AllSignalled
               /\ mpc \in {"sideBySide", "clean", "exit", "panic"})
        => /\ Len(pdfPages) = AlignedPages
           /\ \A n \in 1..Len(pdfPages) :
                /\ pdfPages[n].index = n - 1
                /\ DiffPath(n - 1) \in DOMAIN writes
                /\ pdfPages[n].image.kind # "none"

\* C15 as stated: at every point of p1 the diff pixel is p1's pixel when the
\* two pixels are equal; it is opaque red iff the pixels differ and p1's is
\* the brighter; it is opaque blue iff the pixels differ and p1's is not the
\* brighter.
C15_Luma(c) == (299 * c.r + 587 * c.g + 114 * c.b) \div 1000
C15_RedBlueIff ==
    diffImg # NoPicture =>
        \A pt \in Points(pic1.w, pic1.h) :
            LET c1 == pic1.pix[pt]
                c2 == At(pic2, pt[1], pt[2])
                out == diffImg.pix[pt]
            IN  /\ c1 = c2 => out = c1
                /\ out = Red <=> (c1 # c2 /\ C15_Luma(c1) > C15_Luma(c2))
                /\ out = Blue <=> (c1 # c2 /\ C15_Luma(c1) <= C15_Luma(c2))

\* C15, amended: the diff image has p1's bounds; at every point of p1 the
\* diff pixel is p1's pixel when the two pixels are equal (red or blue if
\* that is p1's colour); when they differ it is opaque red if p1's pixel is
\* the brighter and opaque blue otherwise, a tie included.  A point outside
\* p2 reads as the zero colour.  So diff(p, p) = p.
C15_PixelRule ==
    diffImg # NoPicture =>
        /\ diffImg.w = pic1.w
        /\ diffImg.h = pic1.h
        /\ DOMAIN diffImg.pix = Points(pic1.w, pic1.h)
        /\ \A pt \in Points(pic1.w, pic1.h) :
             LET c1 == pic1.pix[pt]
                 c2 == At(pic2, pt[1], pt[2])
                 out == diffImg.pix[pt]
             IN  /\ c1 = c2 => out = c1
                 /\ c1 # c2 =>
                      /\ out \in {Red, Blue}
                      /\ out = Red <=> C15_Luma(c1) > C15_Luma(c2)
                      /\ out = Blue <=> C15_Luma(c1) <= C15_Luma(c2)
        /\ pic1 = pic2 => diffImg = pic1

\* C15's case: a diff image of two pages that differ at both points: p1 is
\* the brighter at the first (red) and as bright as p2 at the second (blue)
C15_Witness ==
    /\ diffImg # NoPicture
    /\ pic1.w = 2
    /\ pic2.w = 2
    /\ pic1.pix[<<0, 0>>] = Colour(200, 200, 200, 255)
    /\ pic2.pix[<<0, 0>>] = Colour(50, 50, 50, 255)
    /\ diffImg.pix[<<0, 0>>] = Red
    /\ pic1.pix[<<1, 0>>] = Black
    /\ pic2.pix[<<1, 0>>] = Zero
    /\ diffImg.pix[<<1, 0>>] = Blue

\* C16: the composite is p1.w + p2.w wide and max(p1.h, p2.h) high in
\* horizontal mode, max(p1.w, p2.w) wide and p1.h + p2.h high in vertical
\* mode, whatever the two sizes; every pixel of p1 is in it at its own place
\* and every pixel of p2 at its place past p1 (none falls off the canvas),
\* and the rest of the canvas is the zero colour.
C16_DimensionLaws ==
    combinedImg # NoPicture =>
        LET dx == IF verticalAlignFlag THEN 0 ELSE pic1.w
            dy == IF verticalAlignFlag THEN pic1.h ELSE 0
        IN  /\ ~verticalAlignFlag =>
                 /\ combinedImg.w = pic1.w + pic2.w
                 /\ combinedImg.h = max(pic1.h, pic2.h)
            /\ verticalAlignFlag =>
                 /\ combinedImg.w = max(pic1.w, pic2.w)
                 /\ combinedImg.h = pic1.h + pic2.h
            /\ DOMAIN combinedImg.pix = Points(combinedImg.w, combinedImg.h)
            /\ \A pt \in Points(pic1.w, pic1.h) :
                 combinedImg.pix[pt] = pic1.pix[pt]
            /\ \A pt \in Points(pic2.w, pic2.h) :
                 /\ <<pt[1] + dx, pt[2] + dy>> \in DOMAIN combinedImg.pix
                 /\ combinedImg.pix[<<pt[1] + dx, pt[2] + dy>>] = pic2.pix[pt]
            /\ \A pt \in DOMAIN combinedImg.pix :
                 (/\ pt \notin Points(pic1.w, pic1.h)
                  /\ <<pt[1] - dx, pt[2] - dy>> \notin Points(pic2.w, pic2.h))
                     => combinedImg.pix[pt] = Zero

\* C16's case: a wide page and a high page composed in vertical mode
C16_Witness ==
    /\ combinedImg # NoPicture
    /\ verticalAlignFlag
    /\ pic1.w = 2 /\ pic1.h = 1
    /\ pic2.w = 1 /\ pic2.h = 2
    /\ combinedImg.w = 2 /\ combinedImg.h = 3

\* C17: in a valid configuration with startOffset > 0 no job has a page of B
\* in the window [startOffset, startOffset+offset) as its diff target; the
\* target mapping is injective over the job indices and strictly increasing
\* from startOffset on.  So for the resolver, for every page a worker is
\* about to render or has rendered as img2, and for every saved diff.
C17_Valid == 0 <= offset /\ offset < pagesB /\ 0 <= startOffset /\ startOffset < pagesA
C17_Window == startOffset..(startOffset + offset - 1)
C17_WindowNeverTarget ==
    C17_Valid =>
        /\ startOffset > 0 =>
             /\ \A j \in JobIds : pagToCompare(j) \notin C17_Window
             /\ \A w \in Workers :
                  /\ wpc[w] \in {"lockB", "renderB"} =>
                       pagToCompare(wj[w]) \notin C17_Window
                  /\ img2[w].doc = "B" => img2[w].page \notin C17_Window
             /\ \A p \in DOMAIN files :
                  (files[p].kind # "copy" /\ files[p].b.doc = "B")
                      => files[p].b.page \notin C17_Window
        /\ \A i, j \in JobIds : i # j => pagToCompare(i) # pagToCompare(j)
        /\ \A i, j \in JobIds :
             (startOffset <= i /\ i < j) => pagToCompare(i) < pagToCompare(j)
        /\ \A v, w \in Workers :
             (v # w /\ img2[v].doc = "B" /\ img2[w].doc = "B")
                 => img2[v].page # img2[w].page

\* C17's case: three pages each, a window of one page at index 1: job 0 was
\* diffed against page 0 of B and job 1 against page 2
C17_Witness ==
    /\ pagesA = 3 /\ pagesB = 3
    /\ startOffset = 1 /\ offset = 1
    /\ DiffPath(0) \in DOMAIN files
    /\ files[DiffPath(0)] = DiffOf(Page("A", 0), Page("B", 0))
    /\ DiffPath(2) \in DOMAIN files
    /\ files[DiffPath(2)] = DiffOf(Page("A", 1), Page("B", 2))

\* C18: once job startOffset has signalled in a run without a failing call,
\* differences_k.png holds, for every k of the window
\* [startOffset, startOffset+offset), the un-diffed page k of document B,
\* written once.
C18_WindowCopiesOwnPage ==
    (/\ C17_Valid
     /\ faults = 0
     /\ mpc \in {"submit", "drain", "merge", "sideBySide", "clean", "panic"}
     /\ signals[startOffset] = 1)
        => \A k \in C17_Window :
             /\ DiffPath(k) \in DOMAIN files
             /\ files[DiffPath(k)] = CopyOf(Page("B", k))
             /\ writes[DiffPath(k)] = 1

\* C19: a job at or past the end of document A has the blank page as its
\* first diff input and never asks for the mutex or the render of A; a job
\* whose aligned target is at or past the end of document B has the blank
\* page as its second diff input and never asks for the render of its target;
\* no render call is made for a page beyond a document's last (the window
\* copy of job startOffset included, which renders pages of B of its own).
\* Such a job saves its diff image like any other, and has saved it when it
\* signals.
C19_Target(i) == IF i < startOffset THEN i ELSE i + offset
C19_First(i) == IF i >= pagesA THEN Blank ELSE Page("A", i)
C19_Second(i) == IF C19_Target(i) >= pagesB THEN Blank ELSE Page("B", C19_Target(i))
C19_Path(i) == DiffPath(C19_Target(i))
C19_BlankSubstitution ==
    /\ \A w \in Workers :
         /\ wpc[w] \in {"lockA", "renderA"} => wj[w] < pagesA
         /\ wpc[w] \in {"lockB", "renderB"} => C19_Target(wj[w]) < pagesB
         /\ wpc[w] \in {"winLock", "winRender"} => wi[w] - 1 < pagesB
         /\ wpc[w] \in {"lockB", "renderB", "saveDiff", "saveCombined", "send"}
              => img1[w] = C19_First(wj[w])
         /\ wpc[w] \in {"saveDiff", "saveCombined", "send"}
              => img2[w] = C19_Second(wj[w])
         /\ wpc[w] \in {"saveCombined", "send"}
              => /\ C19_Path(wj[w]) \in DOMAIN files
                 /\ files[C19_Path(wj[w])]
                      = DiffOf(C19_First(wj[w]), C19_Second(wj[w]))
    /\ \A i \in JobIds :
         signals[i] > 0 =>
             /\ C19_Path(i) \in DOMAIN writes
             /\ C19_Path(i) \in DOMAIN files
                  => files[C19_Path(i)] = DiffOf(C19_First(i), C19_Second(i))

\* C19's case: A has two pages and B three, one page of B is skipped from
\* index 1 on: job 2 is past the end of A and its target 3 past the end of B;
\* it has saved the diff of two blank pages and signalled
C19_Witness ==
    /\ pagesA = 2 /\ pagesB = 3
    /\ offset = 1 /\ startOffset = 1
    /\ faults = 0
    /\ signals[2] = 1
    /\ DiffPath(3) \in DOMAIN files
    /\ files[DiffPath(3)] = DiffOf(Blank, Blank)

\* C20: main's phases do not overlap: a completion signal is emitted (and
\* received: the channel is unbuffered) only after every index was enqueued
\* and the jobs channel closed; while main submits, nothing was received;
\* after the close nothing is enqueued and the close is never undone.
C20_AfterClose ==
    jobsClosed =>
        /\ jobsClosed'
        /\ enq' = enq
        /\ Len(jobs') <= Len(jobs)
C20_PhasesInOrder ==
    /\ [](/\ (completedOps > 0 \/ \E i \in JobIds : signals[i] > 0)
               => /\ jobsClosed
                  /\ \A i \in JobIds : enq[i] = 1
          /\ mpc \in {"validate", "orient", "spawn", "submit"}
               => /\ ~jobsClosed
                  /\ completedOps = 0
          /\ mpc \in {"drain", "merge", "sideBySide", "clean"} => jobsClosed)
    /\ [][C20_AfterClose]_vars

\* C20's case: a worker that finished its job while main was submitting has
\* had its signal received first thing after the close, another is waiting
C20_Witness ==
    /\ NumJobs = 3
    /\ workers = 2
    /\ mpc = "drain"
    /\ completedOps = 1
    /\ jobsClosed
    /\ \E w \in Workers : wpc[w] = "send"

\* C21: main never blocks in the submission phase, whatever the number of
\* workers and whatever they do: while an index is left to enqueue the jobs
\* channel has room for it, so the send, and after the last one the close, is
\* always possible - also when every worker is blocked sending on done.
C21_SubmissionNeverBlocks ==
    mpc = "submit" =>
        /\ mi < NumJobs => Len(jobs) < JobsCap
        /\ ENABLED (Submit \/ Close)
        /\ Len(jobs) <= mi
        /\ completedOps = 0

\* C21's case: three jobs, two workers; both workers were blocked on done
\* with a job still in the channel, and main has enqueued all three and closed
C21_Witness ==
    /\ NumJobs = 3
    /\ workers = 2
    /\ \A w \in Workers : wpc[w] = "send"
    /\ Len(jobs) = 1
    /\ jobsClosed
    /\ mpc = "drain"
    /\ completedOps = 0

\* C22: the render mutex is held only across a render call: its holder is in
\* a render call, the step out of a render call releases it whether the
\* render succeeded or returned an error, and no worker holds it while it
\* receives from jobs, sends on done, diffs, composes or saves.  So a worker
\* waiting for the mutex gets it, or the process has ended: an abandoned or a
\* signalling job never keeps it waiting.
C22_Waiting(w) == wpc[w] \in {"winLock", "lockA", "lockB"}
C22_RenderStep(w) ==
    (Rendering(w) /\ wpc'[w] # wpc[w]) => (mutex = w /\ mutex' = 0)
C22_MutexOnlyAcrossRender ==
    /\ [](/\ mutex \in {0} \cup Workers
          /\ mutex # 0 => Rendering(mutex)
          /\ \A w \in Workers : ~Rendering(w) => mutex # w)
    /\ [][\A w \in Workers : C22_RenderStep(w)]_vars
    /\ \A w \in 1..MaxWorkers :
         (w \in Workers /\ C22_Waiting(w))
             ~> (w \in Workers /\ (Rendering(w) \/ ~Running))

\* C22's case: a render has returned an error and the job was abandoned;
\* the other worker, which was waiting, now holds the mutex
C22_Witness ==
    /\ workers = 2
    /\ abandoned # {}
    /\ wpc[1] = "recv"
    /\ wpc[2] = "renderB"
    /\ mutex = 2

\* C23: when merge is requested the divisor maxPages/10 of the merge loop's
\* progress step is not zero while the loop runs, whatever
\* maxPages = max(pagesA+offset, pagesB+offset) >= 1 is, and with every
\* artifact in place the loop visits every aligned index and main does not
\* abort in it.
C23_ProgressStepDefined ==
    /\ (mpc = "merge" /\ mi < AlignedPages)
         => AlignedPages \div ProgressParts # 0
    /\ (mergeFlag /\ mpc = "panic"
          /\ \A k \in 0..(AlignedPages - 1) : DiffPath(k) \in DOMAIN files)
         => Len(pdfPages) = AlignedPages
====
